---- MODULE Spec2Model ----
(***************************************************************************)
(* FL Studio .flp container: event table, VLI codec, event decoder with    *)
(* the DWORD-range look-ahead, patcher and serializer.                     *)
(* Buffers are sequences of bytes 0..255; offsets are 0-based as in the    *)
(* source, so the byte at offset o of buf is buf[o + 1].                   *)
(***************************************************************************)
EXTENDS Integers, Sequences, FiniteSets, TLC

VARIABLES buffer, phase, orig, prev, cur, touched, npatch, out, re, meta,
          vn, venc, vdec, kid, kres, woff, wscore, rbuf, roff, rend, rres,
          plugins, lpos, lst, ltab

vars == <<buffer, phase, orig, prev, cur, touched, npatch, out, re, meta,
         vn, venc, vdec, kid, kres, woff, wscore, rbuf, roff, rend, rres,
         plugins, lpos, lst, ltab>>

fileVars == <<buffer, phase, orig, prev, cur, touched, npatch, out, re, meta>>
vliVars == <<vn, venc, vdec>>
kindVars == <<kid, kres>>
walkVars == <<woff, wscore>>
rawVars == <<rbuf, roff, rend, rres>>
pluginVars == <<plugins>>
loopVars == <<lpos, lst, ltab>>

\* ------------------------------------------------------------------------
\* Event table (events.generated.ts)
\* ------------------------------------------------------------------------
BYTE == 0
WORD == 64
DWORD == 128
TEXT == 192
DATA == 208

NEW_TEXT_IDS == {TEXT + 49, TEXT + 39, TEXT + 47}

PROJECT_FL_VERSION == TEXT + 7
PROJECT_TITLE == TEXT + 2
PROJECT_COMMENTS == TEXT + 3
PROJECT_GENRE == TEXT + 14
PROJECT_ARTISTS == TEXT + 15
PROJECT_TEMPO == DWORD + 28

EVENT_KIND ==
  (0 :> "u8") @@ (2 :> "u8") @@ (3 :> "u8") @@ (9 :> "u8") @@ (10 :> "u8") @@
  (11 :> "u8") @@ (12 :> "u8") @@ (13 :> "u8") @@ (15 :> "u8") @@ (20 :> "u8") @@
  (21 :> "u8") @@ (22 :> "i8") @@ (23 :> "u8") @@ (28 :> "u8") @@ (32 :> "u8") @@
  (64 :> "u16") @@ (66 :> "u16") @@ (69 :> "u16") @@ (70 :> "u16") @@
  (71 :> "u16") @@ (72 :> "u16") @@ (73 :> "u16") @@ (74 :> "u16") @@
  (75 :> "u16") @@ (76 :> "u16") @@ (80 :> "i16") @@ (83 :> "u16") @@
  (85 :> "u16") @@ (86 :> "u16") @@ (89 :> "u16") @@ (93 :> "u16") @@
  (94 :> "u16") @@ (95 :> "i16") @@ (97 :> "u16") @@ (98 :> "u16") @@
  (128 :> "u32") @@ (131 :> "u32") @@ (132 :> "u32") @@ (133 :> "u32") @@
  (135 :> "u32") @@ (138 :> "u32") @@ (139 :> "u32") @@ (140 :> "f32") @@
  (142 :> "i32") @@ (143 :> "u32") @@ (144 :> "u32") @@ (145 :> "i32") @@
  (146 :> "i32") @@ (147 :> "i32") @@ (149 :> "u32") @@ (153 :> "u32") @@
  (154 :> "i32") @@ (155 :> "u32") @@ (156 :> "u32") @@ (159 :> "u32") @@
  (192 :> "text") @@ (194 :> "text") @@ (195 :> "text") @@ (196 :> "text") @@
  (197 :> "text") @@ (198 :> "text") @@ (199 :> "text") @@ (200 :> "text") @@
  (201 :> "text") @@ (202 :> "text") @@ (203 :> "text") @@ (204 :> "text") @@
  (206 :> "text") @@ (207 :> "text") @@
  (209 :> "data") @@ (212 :> "data") @@ (213 :> "data") @@ (215 :> "data") @@
  (218 :> "data") @@ (219 :> "data") @@ (221 :> "data") @@ (228 :> "data") @@
  (229 :> "data") @@ (231 :> "data") @@ (234 :> "data") @@ (235 :> "data") @@
  (236 :> "data") @@ (237 :> "data")

\* getEventKind with the fall-back branch answering "data" for every id >= DATA
\* (the NEW_TEXT_IDS test dropped).
getEventKindNoNewText(eventId) ==
  IF eventId \in DOMAIN EVENT_KIND THEN EVENT_KIND[eventId]
  ELSE IF eventId < WORD THEN "u8"
  ELSE IF eventId < DWORD THEN "u16"
  ELSE IF eventId < TEXT THEN "u32"
  ELSE IF eventId < DATA THEN "text"
  ELSE "data"

getEventKind(eventId) ==
  IF eventId \in DOMAIN EVENT_KIND THEN EVENT_KIND[eventId]
  ELSE IF eventId < WORD THEN "u8"
  ELSE IF eventId < DWORD THEN "u16"
  ELSE IF eventId < TEXT THEN "u32"
  ELSE IF eventId < DATA \/ eventId \in NEW_TEXT_IDS THEN "text"
  ELSE "data"

getEventFixedSize(eventId) ==
  IF eventId < WORD THEN 1
  ELSE IF eventId < DWORD THEN 2
  ELSE IF eventId < TEXT THEN 4
  ELSE -1

KNOWN_DWORD_IDS == {id \in DOMAIN EVENT_KIND : id >= DWORD /\ id < TEXT}

\* ------------------------------------------------------------------------
\* Buffers
\* ------------------------------------------------------------------------
Min(a, b) == IF a < b THEN a ELSE b
Max(a, b) == IF a > b THEN a ELSE b

\* Buffer.subarray(from, to): both ends clamped to the buffer.
subarray(buf, from, to) ==
  SubSeq(buf, Min(from, Len(buf)) + 1, Min(to, Len(buf)))

\* SmartBuffer.readBuffer(length) at read offset off: the end point is
\* min(buffer length, off + length); no error when fewer bytes remain.
readBytes(buf, off, length) ==
  IF length >= Len(buf) - off THEN subarray(buf, off, Len(buf))
  ELSE subarray(buf, off, off + length)

\* Little-endian reads of the SmartBuffer; callers check the bounds.
readU16LE(buf, off) == buf[off + 1] + 256 * buf[off + 2]
\* readI16LE without the sign: the 16-bit word read as unsigned
readI16LEUnsigned(buf, off) == buf[off + 1] + 256 * buf[off + 2]

readI16LE(buf, off) ==
  IF readU16LE(buf, off) >= 32768 THEN readU16LE(buf, off) - 65536
  ELSE readU16LE(buf, off)
readU32LE(buf, off) ==
  buf[off + 1] + 256 * buf[off + 2] + 65536 * buf[off + 3] + 16777216 * buf[off + 4]

\* BinaryWriter.writeU32LE(value >>> 0), for 0 <= value < 2^31.
writeU32LE(value) ==
  << value % 256, (value \div 256) % 256, (value \div 65536) % 256,
     (value \div 16777216) % 256 >>

\* ------------------------------------------------------------------------
\* VLI codec.  A JavaScript 32-bit word is the set of its bit positions
\* (0..31), so that `|`, `<<` (shift count taken mod 32, bits above 31
\* lost) and the sign of the int32 result are what the engine computes.
\* ------------------------------------------------------------------------
BitsOf(v) == {j \in 0..7 : (v \div (2^j)) % 2 = 1}

ShiftLeft(v, shift) == {j + (shift % 32) : j \in BitsOf(v)} \cap (0..31)

RECURSIVE SumPow(_)
SumPow(S) ==
  IF S = {} THEN 0
  ELSE LET b == CHOOSE x \in S : TRUE IN 2^b + SumPow(S \ {b})

\* the word read as a signed int32
ToInt32(bits) ==
  IF 31 \in bits THEN (SumPow(bits \ {31}) - 2^30) - 2^30 ELSE SumPow(bits)

\* the word read as an unsigned value (>>> 0).  Values of 2^31 and above do
\* not fit TLC's integers: they are reported as 2^31 - 1, which is
\* larger than any buffer here, so every length comparison made with the
\* value has the same outcome.
ToUint32(bits) ==
  IF 31 \in bits THEN (2^30 - 1) + 2^30 ELSE SumPow(bits)

RECURSIVE readVarIntRawLoop(_, _, _, _, _, _)
readVarIntRawLoop(buf, off, end, start, shift, size) ==
  IF off >= end THEN [size |-> -1, bytesRead |-> 0]
  ELSE LET byte == buf[off + 1]
           size2 == size \cup ShiftLeft(byte % 128, shift)
       IN IF byte < 128
            THEN [size |-> ToInt32(size2), bytesRead |-> (off + 1) - start]
            ELSE readVarIntRawLoop(buf, off + 1, end, start, shift + 7, size2)

readVarIntRaw(buf, off, end) == readVarIntRawLoop(buf, off, end, off, 0, {})

\* BinaryReader.readVarInt at read offset off: protobuf Reader.uint32 over
\* buf.subarray(off).  Up to five bytes are accumulated (the fifth gives
\* its low 4 bits); a byte past the end reads as undefined, which adds
\* nothing and does not terminate; with no terminator among the five the
\* reader skips five more bytes and raises a RangeError if that passes the
\* end.  ok = FALSE is the raised error; pos is the number of bytes consumed.
readVarInt(buf, off) ==
  LET len == Len(buf) - off
      B(k) == IF k < len THEN buf[off + k + 1] ELSE 0
      Stops(k) == k < len /\ buf[off + k + 1] < 128
      Part(k) == IF k < 4 THEN ShiftLeft(B(k) % 128, 7 * k)
                 ELSE ShiftLeft(B(k) % 16, 28)
      Upto(k) == UNION {Part(j) : j \in 0..k}
      stops == {k \in 0..4 : Stops(k)}
  IN IF stops # {}
       THEN LET k == CHOOSE x \in stops : \A y \in stops : x <= y
            IN [ok |-> TRUE, value |-> ToUint32(Upto(k)), pos |-> k + 1]
       ELSE IF 10 > len
         THEN [ok |-> FALSE, value |-> 0, pos |-> len]
         ELSE [ok |-> TRUE, value |-> ToUint32(Upto(4)), pos |-> 10]

\* protobuf Writer.uint32(value), 0 <= value < 2^31: 7 bits per byte, low
\* group first, bit 7 set on every byte but the last.
RECURSIVE writeVarint32(_)
writeVarint32(val) ==
  IF val > 127 THEN <<(val % 128) + 128>> \o writeVarint32(val \div 128)
  ELSE <<val>>

writeVarInt(value) == writeVarint32(value)

\* encodeVarInt with the continuation test off by one (>= 127 for > 127)
encodeVarIntEager(value) ==
  IF value >= 127 THEN <<(value % 128) + 128>> \o writeVarint32(value \div 128)
  ELSE <<value>>

encodeVarInt(value) == writeVarint32(value)

varIntSize(value) ==
  IF value < 128 THEN 1
  ELSE IF value < 16384 THEN 2
  ELSE IF value < 2097152 THEN 3
  ELSE IF value < 268435456 THEN 4
  ELSE 5

\* ------------------------------------------------------------------------
\* Look-ahead walker (FlpParser.ts)
\* ------------------------------------------------------------------------
FLP_HEADER_MAGIC == <<70, 76, 104, 100>>
FLP_DATA_MAGIC == <<70, 76, 100, 116>>
FLP_HEADER_SIZE == 6
LOOKAHEAD_BYTES == 200
LOOKAHEAD_VARINT_MAX == 100000

RECURSIVE scoreAlignmentLoop(_, _, _, _, _, _, _)
scoreAlignmentLoop(buf, off, end, limit, textDataCount, consecutiveSmallByte, maxConsecutiveSmallByte) ==
  IF ~(off < limit)
    THEN textDataCount * 10 - maxConsecutiveSmallByte * 3
  ELSE LET id == buf[off + 1] IN
    IF id < WORD THEN
      IF id < 32 /\ id \notin KNOWN_DWORD_IDS
        THEN scoreAlignmentLoop(buf, off + 2, end, limit, textDataCount,
                 consecutiveSmallByte + 1,
                 Max(maxConsecutiveSmallByte, consecutiveSmallByte + 1))
        ELSE scoreAlignmentLoop(buf, off + 2, end, limit, textDataCount, 0,
                 maxConsecutiveSmallByte)
    ELSE IF id < DWORD THEN
      scoreAlignmentLoop(buf, off + 3, end, limit, textDataCount, 0,
          maxConsecutiveSmallByte)
    ELSE IF id < TEXT THEN
      scoreAlignmentLoop(buf, off + 5, end, limit, textDataCount, 0,
          maxConsecutiveSmallByte)
    ELSE LET vi == readVarIntRaw(buf, off + 1, end) IN
      IF vi.size >= 0 /\ vi.size < LOOKAHEAD_VARINT_MAX
           /\ off + 1 + vi.bytesRead + vi.size <= end
        THEN scoreAlignmentLoop(buf, off + 1 + vi.bytesRead + vi.size, end, limit,
                 textDataCount + 1, 0, maxConsecutiveSmallByte)
        ELSE -100

scoreAlignment(buf, off, end, bytesToCheck) ==
  scoreAlignmentLoop(buf, off, end, Min(off + bytesToCheck, end), 0, 0, 0)

\* ------------------------------------------------------------------------
\* FL version detection (parseFlp, the block after events.push)
\* ------------------------------------------------------------------------
DEFAULT_VERSION == <<48, 46, 48, 46, 48>>   \* the string "0.0.0"

\* payload.toString('ascii'): the high bit of every byte is dropped
toAscii(payload) == [i \in 1..Len(payload) |-> payload[i] % 128]

IsNotNul(c) == c # 0
removeNul(str) == SelectSeq(str, IsNotNul)

IsSpace(c) == c \in {9, 10, 11, 12, 13, 32}

RECURSIVE trimStart(_)
trimStart(str) ==
  IF str # <<>> /\ IsSpace(Head(str)) THEN trimStart(Tail(str)) ELSE str

RECURSIVE trimEnd(_)
trimEnd(str) ==
  IF str # <<>> /\ IsSpace(str[Len(str)])
    THEN trimEnd(SubSeq(str, 1, Len(str) - 1)) ELSE str

trim(str) == trimEnd(trimStart(str))

\* str.split('.')
RECURSIVE splitDots(_, _)
splitDots(str, part) ==
  IF str = <<>> THEN <<part>>
  ELSE IF Head(str) = 46 THEN <<part>> \o splitDots(Tail(str), <<>>)
  ELSE splitDots(Tail(str), Append(part, Head(str)))

IsDigits(part) == part # <<>> /\ \A i \in 1..Len(part) : part[i] \in 48..57

\* /^\d+(\.\d+)+$/.test(candidate)
isSemverLike(candidate) ==
  LET parts == splitDots(candidate, <<>>)
  IN Len(parts) >= 2 /\ \A i \in 1..Len(parts) : IsDigits(parts[i])

\* parseInt(p, 10) of a run of digits
RECURSIVE parseInt(_)
parseInt(part) ==
  IF part = <<>> THEN 0
  ELSE 10 * parseInt(SubSeq(part, 1, Len(part) - 1)) + (part[Len(part)] - 48)

versionCandidate(payload) == trim(removeNul(toAscii(payload)))

versionUsesUnicode(version) ==
  LET parts == splitDots(version, <<>>)
      major == parseInt(parts[1])
      minor == parseInt(parts[2])
  IN Len(parts) >= 2 /\ (major > 11 \/ (major = 11 /\ minor >= 5))

\* detectVersion taking every matching FL-version event, found one or not
detectVersionLast(eventId, payload, flVersion, useUnicode) ==
  IF eventId = PROJECT_FL_VERSION /\ isSemverLike(versionCandidate(payload))
    THEN [flVersion |-> versionCandidate(payload),
          useUnicode |-> versionUsesUnicode(versionCandidate(payload))]
    ELSE [flVersion |-> flVersion, useUnicode |-> useUnicode]

detectVersion(eventId, payload, flVersion, useUnicode) ==
  IF eventId = PROJECT_FL_VERSION /\ flVersion = DEFAULT_VERSION
       /\ isSemverLike(versionCandidate(payload))
    THEN [flVersion |-> versionCandidate(payload),
          useUnicode |-> versionUsesUnicode(versionCandidate(payload))]
    ELSE [flVersion |-> flVersion, useUnicode |-> useUnicode]

\* ------------------------------------------------------------------------
\* Event decoder (parseFlp)
\* ------------------------------------------------------------------------
\* eventFraming choosing the variable reading as soon as it scores higher
eventFramingNoMargin(buf, eventStart, eventId, eventsEnd) ==
  IF eventId < WORD THEN
    [ok |-> TRUE, payloadSize |-> 1, headerSize |-> 1, offset |-> eventStart + 1]
  ELSE IF eventId < DWORD THEN
    [ok |-> TRUE, payloadSize |-> 2, headerSize |-> 1, offset |-> eventStart + 1]
  ELSE IF eventId < TEXT THEN
    IF eventId \in KNOWN_DWORD_IDS THEN
      [ok |-> TRUE, payloadSize |-> 4, headerSize |-> 1, offset |-> eventStart + 1]
    ELSE
      LET afterDword == eventStart + 1 + 4
          vi == readVarIntRaw(buf, eventStart + 1, eventsEnd)
          fixed == [ok |-> TRUE, payloadSize |-> 4, headerSize |-> 1,
                    offset |-> eventStart + 1]
      IN IF vi.size < 0 \/ vi.size > LOOKAHEAD_VARINT_MAX
              \/ eventStart + 1 + vi.bytesRead + vi.size > eventsEnd
           THEN fixed
         ELSE IF vi.size = 3 THEN fixed
         ELSE
           LET afterVarInt == eventStart + 1 + vi.bytesRead + vi.size
               dwordScore == scoreAlignment(buf, afterDword, eventsEnd, LOOKAHEAD_BYTES)
               varIntScore == scoreAlignment(buf, afterVarInt, eventsEnd, LOOKAHEAD_BYTES)
           IN IF varIntScore > dwordScore
                THEN [ok |-> TRUE, payloadSize |-> vi.size,
                      headerSize |-> 1 + vi.bytesRead,
                      offset |-> eventStart + 1 + vi.bytesRead]
                ELSE fixed
  ELSE
    LET sizeStart == eventStart + 1
        r == readVarInt(buf, sizeStart)
    IN [ok |-> r.ok, payloadSize |-> r.value, headerSize |-> 1 + r.pos,
        offset |-> sizeStart + r.pos]

\* eventFraming without the rule for a size of 3
eventFramingNoSizeThree(buf, eventStart, eventId, eventsEnd) ==
  IF eventId < WORD THEN
    [ok |-> TRUE, payloadSize |-> 1, headerSize |-> 1, offset |-> eventStart + 1]
  ELSE IF eventId < DWORD THEN
    [ok |-> TRUE, payloadSize |-> 2, headerSize |-> 1, offset |-> eventStart + 1]
  ELSE IF eventId < TEXT THEN
    IF eventId \in KNOWN_DWORD_IDS THEN
      [ok |-> TRUE, payloadSize |-> 4, headerSize |-> 1, offset |-> eventStart + 1]
    ELSE
      LET afterDword == eventStart + 1 + 4
          vi == readVarIntRaw(buf, eventStart + 1, eventsEnd)
          fixed == [ok |-> TRUE, payloadSize |-> 4, headerSize |-> 1,
                    offset |-> eventStart + 1]
      IN IF vi.size < 0 \/ vi.size > LOOKAHEAD_VARINT_MAX
              \/ eventStart + 1 + vi.bytesRead + vi.size > eventsEnd
           THEN fixed
         ELSE
           LET afterVarInt == eventStart + 1 + vi.bytesRead + vi.size
               dwordScore == scoreAlignment(buf, afterDword, eventsEnd, LOOKAHEAD_BYTES)
               varIntScore == scoreAlignment(buf, afterVarInt, eventsEnd, LOOKAHEAD_BYTES)
           IN IF varIntScore > dwordScore + 2
                THEN [ok |-> TRUE, payloadSize |-> vi.size,
                      headerSize |-> 1 + vi.bytesRead,
                      offset |-> eventStart + 1 + vi.bytesRead]
                ELSE fixed
  ELSE
    LET sizeStart == eventStart + 1
        r == readVarInt(buf, sizeStart)
    IN [ok |-> r.ok, payloadSize |-> r.value, headerSize |-> 1 + r.pos,
        offset |-> sizeStart + r.pos]

\* The size selection of one loop iteration: payloadSize, headerSize and
\* the reader offset at which the payload read starts.  ok = FALSE is the
\* RangeError of readVarInt.
eventFraming(buf, eventStart, eventId, eventsEnd) ==
  IF eventId < WORD THEN
    [ok |-> TRUE, payloadSize |-> 1, headerSize |-> 1, offset |-> eventStart + 1]
  ELSE IF eventId < DWORD THEN
    [ok |-> TRUE, payloadSize |-> 2, headerSize |-> 1, offset |-> eventStart + 1]
  ELSE IF eventId < TEXT THEN
    IF eventId \in KNOWN_DWORD_IDS THEN
      [ok |-> TRUE, payloadSize |-> 4, headerSize |-> 1, offset |-> eventStart + 1]
    ELSE
      LET afterDword == eventStart + 1 + 4
          vi == readVarIntRaw(buf, eventStart + 1, eventsEnd)
          fixed == [ok |-> TRUE, payloadSize |-> 4, headerSize |-> 1,
                    offset |-> eventStart + 1]
      IN IF vi.size < 0 \/ vi.size > LOOKAHEAD_VARINT_MAX
              \/ eventStart + 1 + vi.bytesRead + vi.size > eventsEnd
           THEN fixed
         ELSE IF vi.size = 3 THEN fixed
         ELSE
           LET afterVarInt == eventStart + 1 + vi.bytesRead + vi.size
               dwordScore == scoreAlignment(buf, afterDword, eventsEnd, LOOKAHEAD_BYTES)
               varIntScore == scoreAlignment(buf, afterVarInt, eventsEnd, LOOKAHEAD_BYTES)
           IN IF varIntScore > dwordScore + 2
                THEN [ok |-> TRUE, payloadSize |-> vi.size,
                      headerSize |-> 1 + vi.bytesRead,
                      offset |-> eventStart + 1 + vi.bytesRead]
                ELSE fixed
  ELSE
    LET sizeStart == eventStart + 1
        r == readVarInt(buf, sizeStart)
    IN [ok |-> r.ok, payloadSize |-> r.value, headerSize |-> 1 + r.pos,
        offset |-> sizeStart + r.pos]

\* the event loop recording the id byte alone as every event's header
RECURSIVE eventLoopIdHeader(_, _, _, _, _, _)
eventLoopIdHeader(buf, pos, eventsEnd, events, flVersion, useUnicode) ==
  IF ~(pos < eventsEnd)
    THEN [ok |-> TRUE, events |-> events, flVersion |-> flVersion,
          useUnicode |-> useUnicode, pos |-> pos]
  ELSE
    LET eventStart == pos
        eventId == buf[pos + 1]
        fr == eventFraming(buf, eventStart, eventId, eventsEnd)
    IN IF ~fr.ok THEN [ok |-> FALSE, error |-> "index out of range"]
       ELSE
         LET payload == readBytes(buf, fr.offset, fr.payloadSize)
             event == [id |-> eventId, kind |-> getEventKind(eventId),
                       header |-> <<eventId>>, payload |-> payload,
                       pid |-> Len(events) + 1]
             v == detectVersion(eventId, payload, flVersion, useUnicode)
         IN eventLoopIdHeader(buf, fr.offset + Len(payload), eventsEnd,
                      Append(events, event), v.flVersion, v.useUnicode)

RECURSIVE eventLoop(_, _, _, _, _, _)
eventLoop(buf, pos, eventsEnd, events, flVersion, useUnicode) ==
  IF ~(pos < eventsEnd)
    THEN [ok |-> TRUE, events |-> events, flVersion |-> flVersion,
          useUnicode |-> useUnicode, pos |-> pos]
  ELSE
    LET eventStart == pos
        eventId == buf[pos + 1]
        fr == eventFraming(buf, eventStart, eventId, eventsEnd)
    IN IF ~fr.ok THEN [ok |-> FALSE, error |-> "index out of range"]
       ELSE
         LET payload == readBytes(buf, fr.offset, fr.payloadSize)
             header == subarray(buf, eventStart, eventStart + fr.headerSize)
             event == [id |-> eventId, kind |-> getEventKind(eventId),
                       header |-> header, payload |-> payload,
                       pid |-> Len(events) + 1]
             v == detectVersion(eventId, payload, flVersion, useUnicode)
         IN eventLoop(buf, fr.offset + Len(payload), eventsEnd,
                      Append(events, event), v.flVersion, v.useUnicode)

Failure(msg) == [ok |-> FALSE, error |-> msg]

\* One iteration of the event loop with the cursor at pos: the cursor after
\* the payload read, or ok = FALSE when readVarInt raised.

\* the iteration seeking back to the start of the event after an empty payload
loopIterationRewinds(buf, pos, eventsEnd) ==
  LET fr == eventFraming(buf, pos, buf[pos + 1], eventsEnd)
  IN IF ~fr.ok THEN [ok |-> FALSE, pos |-> pos]
     ELSE IF readBytes(buf, fr.offset, fr.payloadSize) = <<>>
       THEN [ok |-> TRUE, pos |-> pos]
     ELSE [ok |-> TRUE,
           pos |-> fr.offset + Len(readBytes(buf, fr.offset, fr.payloadSize))]

loopIteration(buf, pos, eventsEnd) ==
  LET fr == eventFraming(buf, pos, buf[pos + 1], eventsEnd)
  IN IF ~fr.ok THEN [ok |-> FALSE, pos |-> pos]
     ELSE [ok |-> TRUE,
           pos |-> fr.offset + Len(readBytes(buf, fr.offset, fr.payloadSize))]

\* One step of the walker's loop at offset off: the next offset, or -1 when
\* the walker returns -100.
walkerNext(buf, off, end) ==
  LET id == buf[off + 1] IN
  IF id < WORD THEN off + 2
  ELSE IF id < DWORD THEN off + 3
  ELSE IF id < TEXT THEN off + 5
  ELSE LET vi == readVarIntRaw(buf, off + 1, end) IN
    IF vi.size >= 0 /\ vi.size < LOOKAHEAD_VARINT_MAX
         /\ off + 1 + vi.bytesRead + vi.size <= end
      THEN off + 1 + vi.bytesRead + vi.size
      ELSE -1

\* parseFlp accepting a buffer longer than the length field announces
parseFlpAllowsTrailing(buf) ==
  IF subarray(buf, 0, 4) # FLP_HEADER_MAGIC THEN Failure("Invalid header magic")
  ELSE IF Len(buf) < 8 THEN Failure("out of bounds")
  ELSE IF readU32LE(buf, 4) # FLP_HEADER_SIZE THEN Failure("Invalid header size")
  ELSE IF Len(buf) < 14 THEN Failure("out of bounds")
  ELSE IF readI16LE(buf, 8) < -1 \/ readI16LE(buf, 8) > 80
    THEN Failure("Invalid file format")
  ELSE IF subarray(buf, 14, 18) # FLP_DATA_MAGIC THEN Failure("Invalid data magic")
  ELSE IF Len(buf) < 22 THEN Failure("out of bounds")
  ELSE IF Len(buf) < 22 + readU32LE(buf, 18)
    THEN Failure("Data chunk size mismatch")
  ELSE
    LET eventsStart == 22
        eventsEnd == eventsStart + readU32LE(buf, 18)
        r == eventLoop(buf, eventsStart, eventsEnd, <<>>, DEFAULT_VERSION, FALSE)
    IN IF ~r.ok THEN r
       ELSE [ok |-> TRUE,
             value |-> [headerChunkBytes |-> subarray(buf, 0, 14),
                        fldtHeaderBytes |-> subarray(buf, 14, 22),
                        events |-> r.events,
                        trailingBytes |-> IF Len(buf) - r.pos > 0
                                            THEN readBytes(buf, r.pos, Len(buf) - r.pos)
                                            ELSE <<>>,
                        flVersion |-> r.flVersion,
                        useUnicode |-> r.useUnicode]]

parseFlp(buf) ==
  IF subarray(buf, 0, 4) # FLP_HEADER_MAGIC THEN Failure("Invalid header magic")
  ELSE IF Len(buf) < 8 THEN Failure("out of bounds")
  ELSE IF readU32LE(buf, 4) # FLP_HEADER_SIZE THEN Failure("Invalid header size")
  ELSE IF Len(buf) < 14 THEN Failure("out of bounds")
  ELSE IF readI16LE(buf, 8) < -1 \/ readI16LE(buf, 8) > 80
    THEN Failure("Invalid file format")
  ELSE IF subarray(buf, 14, 18) # FLP_DATA_MAGIC THEN Failure("Invalid data magic")
  ELSE IF Len(buf) < 22 THEN Failure("out of bounds")
  ELSE IF Len(buf) # 22 + readU32LE(buf, 18)
    THEN Failure("Data chunk size mismatch")
  ELSE
    LET eventsStart == 22
        eventsEnd == eventsStart + readU32LE(buf, 18)
        r == eventLoop(buf, eventsStart, eventsEnd, <<>>, DEFAULT_VERSION, FALSE)
    IN IF ~r.ok THEN r
       ELSE [ok |-> TRUE,
             value |-> [headerChunkBytes |-> subarray(buf, 0, 14),
                        fldtHeaderBytes |-> subarray(buf, 14, 22),
                        events |-> r.events,
                        trailingBytes |-> IF Len(buf) - r.pos > 0
                                            THEN readBytes(buf, r.pos, Len(buf) - r.pos)
                                            ELSE <<>>,
                        flVersion |-> r.flVersion,
                        useUnicode |-> r.useUnicode]]

\* the statements of parseFlp before the event loop raise nothing
entersLoop(buf) ==
  /\ subarray(buf, 0, 4) = FLP_HEADER_MAGIC
  /\ Len(buf) >= 8
  /\ readU32LE(buf, 4) = FLP_HEADER_SIZE
  /\ Len(buf) >= 14
  /\ readI16LE(buf, 8) >= -1 /\ readI16LE(buf, 8) <= 80
  /\ subarray(buf, 14, 18) = FLP_DATA_MAGIC
  /\ Len(buf) >= 22
  /\ Len(buf) = 22 + readU32LE(buf, 18)

\* ------------------------------------------------------------------------
\* Serializer
\* ------------------------------------------------------------------------
\* serializeEvent rebuilding the framing from id and payload length every
\* time instead of emitting the stored header
serializeEventCanonical(event) ==
  (IF event.id >= TEXT
     THEN <<event.id % 256>> \o writeVarInt(Len(event.payload))
     ELSE <<event.id % 256>>)
  \o event.payload

serializeEvent(event) ==
  (IF Len(event.header) > 0 THEN event.header
   ELSE IF event.id >= TEXT
     THEN <<event.id % 256>> \o writeVarInt(Len(event.payload))
     ELSE <<event.id % 256>>)
  \o event.payload

\* createEvent(id, payload); pid is the identity of the copy Buffer.from makes
\* createEvent writing the id byte alone for every range
createEventNoPrefix(id, payload, pid) ==
  [id |-> id, kind |-> getEventKind(id), header |-> <<id % 256>>,
   payload |-> payload, pid |-> pid]

createEvent(id, payload, pid) ==
  [id |-> id, kind |-> getEventKind(id),
   header |-> IF id >= TEXT THEN <<id % 256>> \o writeVarInt(Len(payload))
              ELSE <<id % 256>>,
   payload |-> payload, pid |-> pid]

RECURSIVE concatEvents(_)
concatEvents(events) ==
  IF events = <<>> THEN <<>>
  ELSE serializeEvent(Head(events)) \o concatEvents(Tail(events))

\* serializeFlp emitting the stored FLdt header, length field included
serializeFlpStaleLength(parsed) ==
  parsed.headerChunkBytes \o parsed.fldtHeaderBytes
    \o concatEvents(parsed.events) \o parsed.trailingBytes

serializeFlp(parsed) ==
  LET body == concatEvents(parsed.events)
      eventsSize == Len(body) + Len(parsed.trailingBytes)
  IN parsed.headerChunkBytes \o FLP_DATA_MAGIC \o writeU32LE(eventsSize)
       \o body \o parsed.trailingBytes

\* ------------------------------------------------------------------------
\* Typed payloads.  A string is the sequence of its UTF-16 code units.
\* ------------------------------------------------------------------------
\* Buffer.from(str, 'utf16le'): two bytes per code unit, low byte first
RECURSIVE encodeUtf16le(_)
encodeUtf16le(str) ==
  IF str = <<>> THEN <<>>
  ELSE <<Head(str) % 256, Head(str) \div 256>> \o encodeUtf16le(Tail(str))

\* Buffer.from(str, 'ascii'): the low byte of each code unit
encodeAscii(str) == [i \in 1..Len(str) |-> str[i] % 256]

\* buf.toString('utf16le'): one code unit per whole pair of bytes
decodeUtf16le(bytes) ==
  [i \in 1..(Len(bytes) \div 2) |-> bytes[2 * i - 1] + 256 * bytes[2 * i]]

\* buf.toString('ascii'): each byte with its high bit cleared
decodeAscii(bytes) == [i \in 1..Len(bytes) |-> bytes[i] % 128]

\* str up to its first NUL (indexOf('\0') and substring)
cutAtNul(str) ==
  LET nuls == {i \in 1..Len(str) : str[i] = 0}
  IN IF nuls = {} THEN str
     ELSE SubSeq(str, 1, (CHOOSE i \in nuls : \A j \in nuls : i <= j) - 1)

getEventString(event, useUnicode) ==
  IF event.kind # "text" THEN Failure("is not a text event")
  ELSE IF useUnicode
    THEN [ok |-> TRUE, value |-> cutAtNul(decodeUtf16le(event.payload))]
    ELSE [ok |-> TRUE, value |-> cutAtNul(decodeAscii(event.payload))]

createTextPayload(text, useUnicode) ==
  IF useUnicode THEN encodeUtf16le(text \o <<0>>) ELSE encodeAscii(text \o <<0>>)

\* getEventNumber for the integer kinds; a read past the payload's end throws
getEventNumber(event) ==
  LET p == event.payload
      need == IF event.kind \in {"u8", "i8"} THEN 1
              ELSE IF event.kind \in {"u16", "i16"} THEN 2 ELSE 4
  IN IF event.kind \notin {"u8", "i8", "u16", "i16", "u32", "i32"}
       THEN Failure("Cannot get number")
     ELSE IF Len(p) < need THEN Failure("out of bounds")
     ELSE [ok |-> TRUE,
           value |-> CASE event.kind = "u8" -> p[1]
                       [] event.kind = "i8" -> p[1] - (IF p[1] >= 128 THEN 256 ELSE 0)
                       [] event.kind = "u16" -> readU16LE(p, 0)
                       [] event.kind = "i16" -> readI16LE(p, 0)
                       [] event.kind = "u32" -> readU32LE(p, 0)
                       [] event.kind = "i32" ->
                            p[1] + 256 * p[2] + 65536 * p[3]
                              + 16777216 * (p[4] - (IF p[4] >= 128 THEN 256 ELSE 0))]

\* createNumberPayload(value, 'u32'), the one kind writeProjectMeta uses
createNumberPayload(value, kind) == CASE kind = "u32" -> writeU32LE(value)

\* ------------------------------------------------------------------------
\* Patcher
\* ------------------------------------------------------------------------
\* The transform writeProjectMeta gives to patchEvents: title, comments,
\* artists and genre events get a new text payload in the file's encoding,
\* the tempo event gets bpm * 1000 as u32 when bpm is not 0.
metaPatcher(t, event, index) ==
  LET fresh(payload) == [event EXCEPT !.payload = payload, !.pid = t.fresh + index]
  IN IF event.id = PROJECT_TITLE
       THEN fresh(createTextPayload(t.meta.name, t.useUnicode))
     ELSE IF event.id = PROJECT_COMMENTS
       THEN fresh(createTextPayload(t.meta.description, t.useUnicode))
     ELSE IF event.id = PROJECT_ARTISTS
       THEN fresh(createTextPayload(t.meta.artist, t.useUnicode))
     ELSE IF event.id = PROJECT_GENRE
       THEN fresh(createTextPayload(t.meta.genre, t.useUnicode))
     ELSE IF t.meta.bpm # 0 /\ event.id = PROJECT_TEMPO
       THEN fresh(createNumberPayload(t.meta.bpm * 1000, "u32"))
     ELSE event

\* A caller's transform, as writeProjectMeta builds them: the event at index
\* t.target is returned with a newly allocated payload buffer (op "payload":
\* the bytes t.payload; op "rewrite": a copy of the same bytes), every other
\* event is returned as it is.  pid is the identity of the payload buffer
\* object, which is what `!==` compares; t.fresh + index is a new identity.
\* patchEvents takes any function of the event: op "retag" returns the event
\* with another id and the same payload object, op "retagpayload" with
\* another id and a new payload.
patcher(t, event, index) ==
  IF t.op = "meta" THEN metaPatcher(t, event, index)
  ELSE IF index # t.target \/ t.op = "keep" THEN event
  ELSE IF t.op = "payload"
    THEN [event EXCEPT !.payload = t.payload, !.pid = t.fresh + index]
  ELSE IF t.op = "rewrite"
    THEN [event EXCEPT !.pid = t.fresh + index]
  ELSE IF t.op = "retag"
    THEN [event EXCEPT !.id = t.id]
  ELSE [event EXCEPT !.id = t.id, !.payload = t.payload, !.pid = t.fresh + index]

\* patchEvents re-framing every TEXT/DATA event, its payload replaced or not
patchEventsReframeText(parsed, t) ==
  [parsed EXCEPT !.events =
     [index \in 1..Len(parsed.events) |->
        LET event == parsed.events[index]
            patched == patcher(t, event, index)
        IN IF patched.id >= TEXT
             THEN [patched EXCEPT !.header =
                     <<patched.id % 256>> \o writeVarInt(Len(patched.payload))]
             ELSE patched]]

\* patchEvents re-framing every event that has a size prefix, its payload
\* replaced or not
patchEventsReframeAll(parsed, t) ==
  [parsed EXCEPT !.events =
     [index \in 1..Len(parsed.events) |->
        LET event == parsed.events[index]
            patched == patcher(t, event, index)
        IN IF Len(event.header) > 1
             THEN [patched EXCEPT !.header =
                     <<patched.id % 256>> \o writeVarInt(Len(patched.payload))]
             ELSE patched]]

\* patchEvents bringing the stored FLdt header up to date with the new sizes
patchEventsRefreshLength(parsed, t) ==
  LET events == [index \in 1..Len(parsed.events) |->
                   LET event == parsed.events[index]
                       patched == patcher(t, event, index)
                   IN IF patched.pid # event.pid /\ Len(event.header) > 1
                        THEN [patched EXCEPT !.header =
                                <<patched.id % 256>> \o writeVarInt(Len(patched.payload))]
                        ELSE patched]
  IN [parsed EXCEPT !.events = events,
                    !.fldtHeaderBytes =
                       FLP_DATA_MAGIC \o writeU32LE(Len(concatEvents(events)))]

patchEvents(parsed, t) ==
  [parsed EXCEPT !.events =
     [index \in 1..Len(parsed.events) |->
        LET event == parsed.events[index]
            patched == patcher(t, event, index)
        IN IF patched.pid # event.pid /\ Len(event.header) > 1
             THEN [patched EXCEPT !.header =
                     <<patched.id % 256>> \o writeVarInt(Len(patched.payload))]
             ELSE patched]]

\* ------------------------------------------------------------------------
\* Project metadata
\* ------------------------------------------------------------------------
\* index of the first event with the id, 0 when there is none
findFirstEvent(parsed, eventId) ==
  LET found == {i \in 1..Len(parsed.events) : parsed.events[i].id = eventId}
  IN IF found = {} THEN 0 ELSE CHOOSE i \in found : \A j \in found : i <= j

Null == [ok |-> TRUE, null |-> TRUE]

\* readProjectMeta; a field is Null or carries a value, bpm in thousandths
\* (the source divides the tempo by 1000); ok = FALSE when a getter throws
readProjectMeta(parsed) ==
  LET str(eventId) ==
        LET i == findFirstEvent(parsed, eventId)
        IN IF i = 0 THEN Null
           ELSE LET r == getEventString(parsed.events[i], parsed.useUnicode)
                IN IF r.ok THEN [ok |-> TRUE, null |-> FALSE, value |-> r.value] ELSE r
      num(eventId) ==
        LET i == findFirstEvent(parsed, eventId)
        IN IF i = 0 THEN Null
           ELSE LET r == getEventNumber(parsed.events[i])
                IN IF r.ok THEN [ok |-> TRUE, null |-> FALSE, value |-> r.value] ELSE r
      name == str(PROJECT_TITLE)
      description == str(PROJECT_COMMENTS)
      artist == str(PROJECT_ARTISTS)
      genre == str(PROJECT_GENRE)
      bpm == num(PROJECT_TEMPO)
  IN IF name.ok /\ description.ok /\ artist.ok /\ genre.ok /\ bpm.ok
       THEN [ok |-> TRUE, name |-> name, description |-> description,
             artist |-> artist, genre |-> genre, bpmThousandths |-> bpm]
       ELSE Failure("getter failed")

\* writeProjectMeta with all five fields given
writeProjectMeta(parsed, m, fresh) ==
  patchEvents(parsed, [target |-> 0, op |-> "meta", meta |-> m,
                       useUnicode |-> parsed.useUnicode, fresh |-> fresh])

\* ------------------------------------------------------------------------
\* Plugin list (listPlugins, parseVstPluginData)
\* ------------------------------------------------------------------------
CHANNEL_NEW == 64
PLUGIN_INTERNAL_NAME == 201
PLUGIN_NAME == 203
PLUGIN_DATA == 213
VST_EVENT_ID_NAME == 54
VST_EVENT_ID_VENDOR == 56

\* the string "Fruity Wrapper"
FRUITY_WRAPPER == <<70, 114, 117, 105, 116, 121, 32, 87, 114, 97, 112, 112, 101, 114>>

\* a `string | null`: null, or a sequence of character codes
NoString == [null |-> TRUE]
Str(s) == [null |-> FALSE, value |-> s]
\* the truth value JavaScript gives it: null and "" are false
Truthy(x) == ~x.null /\ x.value # <<>>
\* x ?? ""
OrEmpty(x) == IF x.null THEN <<>> ELSE x.value
\* a || b
OrElse(a, b) == IF Truthy(a) THEN a ELSE b

\* data.toString('utf8') of bytes that hold no multi-byte sequence: a byte
\* below 128 is its character, any other byte decodes to U+FFFD
decodeUtf8(bytes) ==
  [i \in 1..Len(bytes) |-> IF bytes[i] < 128 THEN bytes[i] ELSE 65533]

\* the sub-event loop of parseVstPluginData; pos is the reader offset.  The
\* upper half of the 64-bit size makes the size exceed every buffer unless
\* it is 0.
RECURSIVE vstSubEvents(_, _, _, _)
vstSubEvents(payload, pos, name, vendor) ==
  IF ~(Len(payload) - pos >= 12) THEN [name |-> name, vendor |-> vendor]
  ELSE
    LET subEventId == readU32LE(payload, pos)
        dataSize == readU32LE(payload, pos + 4)
        dataSizeHigh == readU32LE(payload, pos + 8)
        remaining == Len(payload) - (pos + 12)
    IN IF dataSizeHigh > 0 \/ dataSize > remaining
         THEN [name |-> name, vendor |-> vendor]
       ELSE
         LET data == readBytes(payload, pos + 12, dataSize)
             text == Str(removeNul(decodeUtf8(data)))
         IN IF subEventId = VST_EVENT_ID_NAME /\ dataSize > 0
              THEN vstSubEvents(payload, pos + 12 + dataSize, text, vendor)
            ELSE IF subEventId = VST_EVENT_ID_VENDOR /\ dataSize > 0
              THEN vstSubEvents(payload, pos + 12 + dataSize, name, text)
            ELSE vstSubEvents(payload, pos + 12 + dataSize, name, vendor)

parseVstPluginData(payload) ==
  IF Len(payload) < 4 THEN [name |-> NoString, vendor |-> NoString]
  ELSE vstSubEvents(payload, 4, NoString, NoString)

\* the keys of seenPlugins: `${a}:${b}` and `vst:${name}:${vendor}`
nativeKey(internalName, pluginName) ==
  OrEmpty(internalName) \o <<58>> \o OrEmpty(pluginName)
vstKey(name, vendor) ==
  <<118, 115, 116, 58>> \o name.value \o <<58>> \o OrEmpty(vendor)

\* the loop of listPlugins over events[i..]; st holds plugins, seenPlugins,
\* currentInternalName and currentPluginName.  ok = FALSE: getEventString
\* threw.
RECURSIVE listPluginsLoop(_, _, _)
listPluginsLoop(parsed, i, st) ==
  IF i > Len(parsed.events) THEN
    IF Truthy(st.currentInternalName) /\ st.currentInternalName.value # FRUITY_WRAPPER
         /\ nativeKey(st.currentInternalName, st.currentPluginName) \notin st.seenPlugins
      THEN [ok |-> TRUE,
            value |-> Append(st.plugins,
                        [name |-> OrElse(st.currentPluginName, st.currentInternalName),
                         vendor |-> NoString])]
      ELSE [ok |-> TRUE, value |-> st.plugins]
  ELSE
    LET event == parsed.events[i] IN
    IF event.id = CHANNEL_NEW THEN
      LET key == nativeKey(st.currentInternalName, st.currentPluginName)
          save == /\ Truthy(st.currentInternalName) \/ Truthy(st.currentPluginName)
                  /\ key \notin st.seenPlugins
                  /\ Truthy(st.currentInternalName)
                  /\ st.currentInternalName.value # FRUITY_WRAPPER
      IN listPluginsLoop(parsed, i + 1,
           [plugins |-> IF save
                          THEN Append(st.plugins,
                                 [name |-> OrElse(st.currentPluginName,
                                                  st.currentInternalName),
                                  vendor |-> NoString])
                          ELSE st.plugins,
            seenPlugins |-> IF save THEN st.seenPlugins \cup {key} ELSE st.seenPlugins,
            currentInternalName |-> NoString,
            currentPluginName |-> NoString])
    ELSE IF event.id = PLUGIN_INTERNAL_NAME THEN
      LET r == getEventString(event, parsed.useUnicode)
      IN IF ~r.ok THEN r
         ELSE listPluginsLoop(parsed, i + 1,
                [st EXCEPT !.currentInternalName = Str(r.value)])
    ELSE IF event.id = PLUGIN_NAME THEN
      LET r == getEventString(event, parsed.useUnicode)
      IN IF ~r.ok THEN r
         ELSE listPluginsLoop(parsed, i + 1,
                [st EXCEPT !.currentPluginName = Str(r.value)])
    ELSE IF event.id = PLUGIN_DATA /\ st.currentInternalName = Str(FRUITY_WRAPPER) THEN
      LET vstData == parseVstPluginData(event.payload)
          add == Truthy(vstData.name)
                   /\ vstKey(vstData.name, vstData.vendor) \notin st.seenPlugins
      IN listPluginsLoop(parsed, i + 1,
           [plugins |-> IF add THEN Append(st.plugins, vstData) ELSE st.plugins,
            seenPlugins |-> IF add
                              THEN st.seenPlugins
                                     \cup {vstKey(vstData.name, vstData.vendor)}
                              ELSE st.seenPlugins,
            currentInternalName |-> NoString,
            currentPluginName |-> NoString])
    ELSE listPluginsLoop(parsed, i + 1, st)

listPlugins(parsed) ==
  listPluginsLoop(parsed, 1,
    [plugins |-> <<>>, seenPlugins |-> {}, currentInternalName |-> NoString,
     currentPluginName |-> NoString])

\* ------------------------------------------------------------------------
\* Inputs
\* ------------------------------------------------------------------------
MaxSegs == 2
MaxPatches == 1
MaxCreated == 1
MaxVersionEvents == 2
MaxSmallVli == 300
MaxWalkStart == 240
MaxRawSegs == 2

\* Byte runs the event streams are assembled from: whole events of every
\* range, a TEXT event with a 2-byte encoding of size 1, unknown DWORD-range
\* events (id 129) whose first payload byte also reads as a VLI, a TEXT event
\* whose size field is five continuation bytes and the five bytes the
\* reader skips after them, and two runs that end in the middle of an event.
Segments ==
  { <<5, 42>>, <<64, 1, 0>>, <<128, 128, 128, 0, 5>>,
    <<129, 2, 0, 0, 64>>, <<129, 0, 194, 129, 128>>, <<129, 1, 65>>,
    <<194, 0>>, <<194, 2, 65, 0>>, <<194, 129, 0, 65>>,
    <<194, 128, 128, 128, 128, 128, 0, 0, 0, 0, 0>>,
    <<5>>, <<194, 128>> }

\* FL-version events ("0.0.0", "12.0", "11.5", "11.4", "9", "20.1" with a
\* trailing NUL) and a title event.
VersionSegments ==
  { <<199, 5, 48, 46, 48, 46, 48>>, <<199, 4, 49, 50, 46, 48>>,
    <<199, 4, 49, 49, 46, 53>>, <<199, 4, 49, 49, 46, 52>>,
    <<199, 1, 57>>, <<199, 5, 50, 48, 46, 49, 0>>, <<194, 2, 65, 0>> }

RECURSIVE StreamsOf(_, _)
StreamsOf(segments, n) ==
  IF n = 0 THEN {<<>>}
  ELSE {<<>>} \cup {s \o t : s \in segments, t \in StreamsOf(segments, n - 1)}

FileHeader == FLP_HEADER_MAGIC \o <<FLP_HEADER_SIZE, 0, 0, 0>> \o <<0, 0, 1, 0, 96, 0>>

FileOf(stream) == FileHeader \o FLP_DATA_MAGIC \o writeU32LE(Len(stream)) \o stream

GoodFiles == {FileOf(s) : s \in StreamsOf(Segments, MaxSegs)}

\* files that break one container rule each
BadFiles ==
  LET f == FileOf(<<5, 42>>)
  IN { [f EXCEPT ![1] = 88], [f EXCEPT ![5] = 7], [f EXCEPT ![9] = 81],
       [f EXCEPT ![15] = 88], [f EXCEPT ![19] = 3],
       [FileOf(<<5, 42, 64, 1, 0>>) EXCEPT ![19] = 2],
       SubSeq(f, 1, 6), SubSeq(f, 1, 12), SubSeq(f, 1, 20) }

Inputs == GoodFiles \cup BadFiles

VersionInputs == {FileOf(s) : s \in StreamsOf(VersionSegments, MaxVersionEvents)}

\* Container headers: two files with every combination of a wrong FLhd magic,
\* header size, format, FLdt magic and length field, the format values at
\* and around the accepted interval, and every prefix of a file.
HeaderFlaws == {"magic", "size", "format", "dmagic", "length"}

Corrupt(f, flaws) ==
  [i \in 1..Len(f) |->
     IF i = 1 /\ "magic" \in flaws THEN 88
     ELSE IF i = 5 /\ "size" \in flaws THEN 7
     ELSE IF i = 9 /\ "format" \in flaws THEN 81
     ELSE IF i = 15 /\ "dmagic" \in flaws THEN 88
     ELSE IF i = 19 /\ "length" \in flaws THEN f[i] + 1
     ELSE f[i]]

WithFormat(f, lo, hi) == [f EXCEPT ![9] = lo, ![10] = hi]

HeaderInputs ==
  LET bases == {FileOf(<<>>), FileOf(<<5, 42>>)}
      f == FileOf(<<5, 42>>)
  IN {Corrupt(b, flaws) : b \in bases, flaws \in SUBSET HeaderFlaws}
     \cup {WithFormat(f, fm[1], fm[2]) :
             fm \in {<<255, 255>>, <<254, 255>>, <<80, 0>>, <<81, 0>>, <<0, 1>>, <<0, 128>>}}
     \cup {SubSeq(f, 1, n) : n \in 0..Len(f)}

\* Files for patching: fixed-range events, an unknown DWORD-range event that
\* is resolved as variable in front of a TEXT event, TEXT events with a
\* minimal and a 2-byte size of 1 or 2, a DATA event, and a TEXT event of
\* size 5 with one payload byte, cut short unless more bytes follow.
PatchSegments ==
  { <<5, 42>>, <<64, 1, 0>>, <<129, 1, 65>>, <<194, 2, 65, 0>>,
    <<194, 129, 0, 65>>, <<210, 1, 7>>, <<194, 5, 1>> }

PatchInputs == {FileOf(s) : s \in StreamsOf(PatchSegments, MaxSegs)}

\* ids a transform or a caller gives to an event
NewIds == {5, 129, 195, 210}

\* a payload whose length takes a 2-byte size field
LongPayload == [i \in 1..130 |-> 7]

\* Projects with the five metadata events, without a version event or behind
\* FL version 11.4 or 12.0, and with or without an unknown DWORD-range event
\* in front of the title.
MetaBody ==
  <<194, 2, 65, 0>> \o <<195, 1, 0>> \o <<206, 1, 0>> \o <<207, 1, 0>>
    \o <<156, 192, 212, 1, 0>>

MetaFiles ==
  {FileOf(v \o u \o MetaBody) :
     v \in {<<>>, <<199, 5, 49, 49, 46, 52, 0>>, <<199, 5, 49, 50, 46, 48, 0>>},
     u \in {<<>>, <<129, 1, 65>>}}

\* "", "Hi", "e" with acute accent (U+00E9), the euro sign (U+20AC)
MetaStrings == {<<>>, <<72, 105>>, <<233>>, <<8364>>}

Metas ==
  [name : MetaStrings, description : {<<68>>}, artist : {<<82>>},
   genre : {<<71>>, <<233>>}, bpm : {1, 120, 2147483}]

\* Streams for the look-ahead.  Besides the byte runs of Segments: a BYTE
\* event with an id of 32 or more, an unknown DWORD-range event followed by
\* the 1-byte and by a 2-byte encoding of size 3, one followed by a size that
\* passes the stream end, one followed by four continuation bytes (a
\* malformed size at the stream end, a negative one in front of <<8, 1>>),
\* a pair of runs whose two readings score 1 and 0, a DATA event, and an
\* unknown DWORD-range id with size 0 in front of a DATA event that passes
\* the stream end and whose bytes from the third on are 35 BYTE events with
\* small ids.
SmallRun == <<210, 200, 1>> \o [i \in 1..70 |-> IF i % 2 = 1 THEN 31 ELSE 210]

LookSegments ==
  { <<5, 42>>, <<40, 1>>, <<8, 1>>, <<64, 1, 0>>, <<128, 128, 128, 0, 5>>,
    <<129, 2, 0, 0, 64>>, <<129, 0, 194, 129, 128>>, <<129, 1, 65>>,
    <<129, 3, 1, 2, 3>>, <<129, 131, 0, 1, 2>>, <<3, 194, 1, 9>>,
    <<129, 100, 1, 2, 3>>, <<129, 128, 128, 128, 128>>,
    <<129, 0, 5, 40, 5>>, <<40, 5, 64, 194, 1, 40, 7>>,
    <<194, 0>>, <<194, 2, 65, 0>>, <<194, 129, 0, 65>>, <<210, 1, 7>>,
    <<129, 0>>, SmallRun, <<5>>, <<194, 128>> }

LookFiles == {FileOf(s) : s \in StreamsOf(LookSegments, MaxSegs)}

\* Streams for the walker alone: events of every range, a run of three BYTE
\* events with small ids, TEXT events with a 2-byte size, with a size that
\* passes the stream end and with an unfinished size, and three TEXT events
\* that together are longer than the walker's window of 200 bytes.
LongText ==
  <<194, 130, 1>> \o [i \in 1..130 |-> 130] \o <<194, 100>> \o [i \in 1..100 |-> 130]
    \o <<194, 0>>

WalkSegments ==
  { <<5, 42>>, <<40, 1>>, <<1, 1, 2, 2, 3, 3>>, <<64, 1, 0>>, <<129, 1, 2, 3, 4>>,
    <<194, 0>>, <<194, 129, 0, 65>>, <<210, 1, 7>>, <<194, 5, 1>>, <<194, 128>>,
    LongText }

\* one DATA event whose size is LOOKAHEAD_VARINT_MAX and whose payload is there
BigData == <<210, 160, 141, 6>> \o [i \in 1..LOOKAHEAD_VARINT_MAX |-> 130]

WalkFiles == {FileOf(s) : s \in StreamsOf(WalkSegments, MaxSegs)} \cup {FileOf(BigData)}

NewPayloads == {<<65, 0>>, <<194, 0, 194, 0>>}

\* the widths' boundaries and a run of small values
VliInputs ==
  (0..MaxSmallVli) \cup
  { 2^7 - 1, 2^7, 2^14 - 1, 2^14, 2^21 - 1, 2^21, 2^28 - 1, 2^28,
    2^30, (2^30 - 1) + 2^30 }

\* Byte runs for the size decoders: sizes of one to five bytes, a size that
\* sets bit 31, sizes whose fifth byte has bits above the fourth, sizes of six
\* bytes, five continuation bytes with five more bytes behind them, and runs
\* that end on a continuation byte.
RawSegments ==
  { <<0>>, <<5>>, <<127>>, <<172, 2>>, <<128, 128, 1>>, <<255, 255, 255, 127>>,
    <<128, 128, 128, 128, 7>>, <<128, 128, 128, 128, 8>>, <<255, 255, 255, 255, 15>>,
    <<129, 128, 128, 128, 113>>, <<128, 128, 128, 128, 128, 1>>,
    <<129, 128, 128, 128, 128, 0>>, <<128, 128, 128, 128, 128, 128, 128, 128, 128, 1>>,
    <<128>>, <<255, 128>> }

RawBuffers == StreamsOf(RawSegments, MaxRawSegs)

\* Plugin streams: a channel start, internal names "A", "B", "" and
\* "Fruity Wrapper", a display name "X", wrapper data naming the plugin "V" of
\* vendor "W", naming "X" without vendor and naming nothing, two whole native
\* channels that share the display name "X", and a BYTE event.
TextEvent(id, str) == <<id, Len(str) + 1>> \o str \o <<0>>
SubEvent(id, data) == <<id, 0, 0, 0, Len(data), 0, 0, 0, 0, 0, 0, 0>> \o data
DataEvent(id, payload) == <<id, Len(payload)>> \o payload

PluginSegments ==
  { <<CHANNEL_NEW, 0, 0>>,
    TextEvent(PLUGIN_INTERNAL_NAME, <<65>>), TextEvent(PLUGIN_INTERNAL_NAME, <<66>>),
    TextEvent(PLUGIN_INTERNAL_NAME, <<>>), TextEvent(PLUGIN_INTERNAL_NAME, FRUITY_WRAPPER),
    TextEvent(PLUGIN_NAME, <<88>>),
    DataEvent(PLUGIN_DATA, <<10, 0, 0, 0>> \o SubEvent(VST_EVENT_ID_NAME, <<86>>)
                             \o SubEvent(VST_EVENT_ID_VENDOR, <<87>>)),
    DataEvent(PLUGIN_DATA, <<10, 0, 0, 0>> \o SubEvent(VST_EVENT_ID_NAME, <<88, 0>>)),
    DataEvent(PLUGIN_DATA, <<10, 0, 0, 0>> \o SubEvent(1, <<7>>)),
    <<CHANNEL_NEW, 0, 0>> \o TextEvent(PLUGIN_INTERNAL_NAME, <<65>>)
       \o TextEvent(PLUGIN_NAME, <<88>>),
    <<CHANNEL_NEW, 1, 0>> \o TextEvent(PLUGIN_INTERNAL_NAME, <<66>>)
       \o TextEvent(PLUGIN_NAME, <<88>>),
    <<5, 42>> }

PluginFiles == {FileOf(s) : s \in StreamsOf(PluginSegments, MaxSegs)}

None == [ok |-> FALSE, error |-> "none"]
NoFile == [headerChunkBytes |-> <<>>, fldtHeaderBytes |-> <<>>, events |-> <<>>,
           trailingBytes |-> <<>>, flVersion |-> <<>>, useUnicode |-> FALSE]

\* no metadata written
NoMeta == [name |-> <<>>, description |-> <<>>, artist |-> <<>>, genre |-> <<>>,
           bpm |-> 0]

FileIdle ==
  /\ buffer = <<>> /\ phase = "idle" /\ orig = None /\ prev = NoFile /\ cur = NoFile
  /\ touched = {} /\ npatch = 0 /\ out = <<>> /\ re = None /\ meta = NoMeta
VliIdle == vn = 0 /\ venc = <<>> /\ vdec = None
KindIdle == kid = 0 /\ kres = "none"
WalkIdle == woff = 0 /\ wscore = 0
PluginsIdle == plugins = None
NoTable == [enters |-> FALSE, iteration |-> <<>>]
LoopIdle == lpos = 0 /\ lst = "idle" /\ ltab = NoTable
RawIdle == rbuf = <<>> /\ roff = 0 /\ rend = 0 /\ rres = None

\* ------------------------------------------------------------------------
\* parse -> patch* -> serialize -> parse again
\* ------------------------------------------------------------------------
FileStart(inputs) ==
  /\ buffer \in inputs
  /\ phase = "input"
  /\ orig = None /\ prev = NoFile /\ cur = NoFile
  /\ touched = {} /\ npatch = 0 /\ out = <<>> /\ re = None /\ meta = NoMeta

Init == FileStart(Inputs) /\ VliIdle /\ KindIdle /\ WalkIdle /\ RawIdle /\ PluginsIdle /\ LoopIdle

Parse ==
  /\ phase = "input"
  /\ orig' = parseFlp(buffer)
  /\ cur' = IF orig'.ok THEN orig'.value ELSE NoFile
  /\ phase' = IF orig'.ok THEN "parsed" ELSE "failed"
  /\ UNCHANGED <<buffer, prev, touched, npatch, out, re, meta, vliVars, kindVars, walkVars, rawVars, pluginVars, loopVars>>

\* patchEvents with a transform that replaces one event's payload
Patch ==
  /\ phase \in {"parsed", "patched"}
  /\ npatch < MaxPatches
  /\ \E k \in 1..Len(cur.events), op \in {"payload", "rewrite"}, p \in NewPayloads :
       LET t == [target |-> k, op |-> op, payload |-> p,
                 fresh |-> (npatch + 1) * Len(cur.events)]
       IN /\ op = "rewrite" => p = <<65, 0>>
          /\ cur' = patchEvents(cur, t)
          /\ touched' = touched \cup {k}
  /\ prev' = cur
  /\ npatch' = npatch + 1
  /\ phase' = "patched"
  /\ UNCHANGED <<buffer, orig, out, re, meta, vliVars, kindVars, walkVars, rawVars, pluginVars, loopVars>>

\* patchEvents with the identity transform
PatchNothing ==
  /\ phase \in {"parsed", "patched"}
  /\ npatch < MaxPatches
  /\ cur' = patchEvents(cur, [target |-> 0, op |-> "keep", payload |-> <<>>, fresh |-> 0])
  /\ prev' = cur
  /\ npatch' = npatch + 1
  /\ phase' = "patched"
  /\ UNCHANGED <<buffer, orig, touched, out, re, meta, vliVars, kindVars, walkVars, rawVars, pluginVars, loopVars>>

Serialize ==
  /\ phase \in {"parsed", "patched"}
  /\ out' = serializeFlp(cur)
  /\ phase' = "serialized"
  /\ UNCHANGED <<buffer, orig, prev, cur, touched, npatch, re, meta, vliVars, kindVars, walkVars, rawVars, pluginVars, loopVars>>

Reparse ==
  /\ phase = "serialized"
  /\ re' = parseFlp(out)
  /\ phase' = "reparsed"
  /\ UNCHANGED <<buffer, orig, prev, cur, touched, npatch, out, meta, vliVars, kindVars, walkVars, rawVars, pluginVars, loopVars>>

Next == Parse \/ Patch \/ PatchNothing \/ Serialize \/ Reparse

Spec == Init /\ [][Next]_vars

\* ------------------------------------------------------------------------
\* parseFlp over streams of FL-version events
\* ------------------------------------------------------------------------
InitVersion == FileStart(VersionInputs) /\ VliIdle /\ KindIdle /\ WalkIdle /\ RawIdle /\ PluginsIdle /\ LoopIdle

NextVersion == Parse

SpecVersion == InitVersion /\ [][NextVersion]_vars

\* ------------------------------------------------------------------------
\* parseFlp on container headers
\* ------------------------------------------------------------------------
InitHeader == FileStart(HeaderInputs) /\ VliIdle /\ KindIdle /\ WalkIdle /\ RawIdle /\ PluginsIdle /\ LoopIdle

NextHeader == Parse

SpecHeader == InitHeader /\ [][NextHeader]_vars

\* ------------------------------------------------------------------------
\* parse -> patchEvents with any transform, or a caller adding events
\* -> serialize
\* ------------------------------------------------------------------------
InitPatch == FileStart(PatchInputs) /\ VliIdle /\ KindIdle /\ WalkIdle /\ RawIdle /\ PluginsIdle /\ LoopIdle

\* patchEvents with a transform that changes the payload, the id or both of
\* one event
PatchAny ==
  /\ phase \in {"parsed", "patched"}
  /\ npatch < MaxPatches
  /\ \E k \in 1..Len(cur.events),
        op \in {"payload", "rewrite", "retag", "retagpayload"},
        p \in NewPayloads, id \in NewIds :
       LET t == [target |-> k, op |-> op, payload |-> p, id |-> id,
                 fresh |-> (npatch + 1) * Len(cur.events)]
       IN /\ op \in {"rewrite", "retag"} => p = <<65, 0>>
          /\ op \in {"payload", "rewrite"} => id = 195
          /\ op \in {"retag", "retagpayload"} => id # cur.events[k].id
          /\ cur' = patchEvents(cur, t)
          /\ touched' = touched \cup {k}
  /\ prev' = cur
  /\ npatch' = npatch + 1
  /\ phase' = "patched"
  /\ UNCHANGED <<buffer, orig, out, re, meta, vliVars, kindVars, walkVars, rawVars, pluginVars, loopVars>>

\* the events a caller has added: made by createEvent (pid < 0) or built with
\* an empty header
IsCreated(event) == event.pid < 0
Added(events) == {i \in 1..Len(events) : IsCreated(events[i]) \/ events[i].header = <<>>}

\* a caller builds a ParsedFlp with one more event at the end, made by
\* createEvent or written out with an empty header
AddEvent ==
  /\ phase \in {"parsed", "added"}
  /\ Cardinality(Added(cur.events)) < MaxCreated
  /\ \E id \in NewIds, p \in {<<>>, <<65, 0>>, LongPayload}, made \in BOOLEAN :
       LET pid == -1 - Len(cur.events)
           event == IF made THEN createEvent(id, p, pid)
                    ELSE [id |-> id, kind |-> getEventKind(id), header |-> <<>>,
                          payload |-> p, pid |-> Len(cur.events) + 1]
       IN cur' = [cur EXCEPT !.events = Append(@, event)]
  /\ prev' = cur
  /\ phase' = "added"
  /\ UNCHANGED <<buffer, orig, touched, npatch, out, re, meta, vliVars, kindVars, walkVars, rawVars, pluginVars, loopVars>>

SerializeAny ==
  /\ phase \in {"parsed", "patched", "added"}
  /\ out' = serializeFlp(cur)
  /\ phase' = "serialized"
  /\ UNCHANGED <<buffer, orig, prev, cur, touched, npatch, re, meta, vliVars, kindVars, walkVars, rawVars, pluginVars, loopVars>>

NextPatch == Parse \/ PatchAny \/ PatchNothing \/ AddEvent \/ SerializeAny

SpecPatch == InitPatch /\ [][NextPatch]_vars

\* ------------------------------------------------------------------------
\* parse -> writeProjectMeta -> serialize -> parse again
\* ------------------------------------------------------------------------
InitMeta == FileStart(MetaFiles) /\ VliIdle /\ KindIdle /\ WalkIdle /\ RawIdle /\ PluginsIdle /\ LoopIdle

MetaIds == {PROJECT_TITLE, PROJECT_COMMENTS, PROJECT_ARTISTS, PROJECT_GENRE, PROJECT_TEMPO}

WriteMeta ==
  /\ phase = "parsed"
  /\ \E m \in Metas :
       /\ cur' = writeProjectMeta(cur, m, Len(cur.events))
       /\ meta' = m
  /\ prev' = cur
  /\ touched' = {i \in 1..Len(cur.events) : cur.events[i].id \in MetaIds}
  /\ npatch' = npatch + 1
  /\ phase' = "patched"
  /\ UNCHANGED <<buffer, orig, out, re, vliVars, kindVars, walkVars, rawVars, pluginVars, loopVars>>

NextMeta == Parse \/ WriteMeta \/ Serialize \/ Reparse

SpecMeta == InitMeta /\ [][NextMeta]_vars

\* ------------------------------------------------------------------------
\* parseFlp and scoreAlignment on streams with unknown DWORD-range events
\* ------------------------------------------------------------------------
InitLook == FileStart(LookFiles) /\ VliIdle /\ KindIdle /\ WalkIdle /\ RawIdle /\ PluginsIdle /\ LoopIdle

NextLook == Parse

SpecLook == InitLook /\ [][NextLook]_vars

\* ------------------------------------------------------------------------
\* scoreAlignment from any offset of an event stream
\* ------------------------------------------------------------------------
InitWalk == FileStart(WalkFiles) /\ VliIdle /\ KindIdle /\ WalkIdle /\ RawIdle /\ PluginsIdle /\ LoopIdle

\* scoreAlignment(buffer, q, eventsEnd, LOOKAHEAD_BYTES)
Score ==
  /\ woff = 0
  /\ \E q \in 22..Min(Len(buffer), 21 + MaxWalkStart) :
       /\ woff' = q
       /\ wscore' = scoreAlignment(buffer, q, Len(buffer), LOOKAHEAD_BYTES)
  /\ UNCHANGED <<fileVars, vliVars, kindVars, rawVars, pluginVars, loopVars>>

NextWalk == Score

SpecWalk == InitWalk /\ [][NextWalk]_vars

\* ------------------------------------------------------------------------
\* The VLI codec alone: encode n, then decode the bytes with both decoders
\* ------------------------------------------------------------------------
InitVli == FileIdle /\ KindIdle /\ WalkIdle /\ RawIdle /\ PluginsIdle /\ LoopIdle /\ vn \in VliInputs /\ venc = <<>> /\ vdec = None

EncodeVli ==
  /\ venc = <<>>
  /\ venc' = encodeVarInt(vn)
  /\ UNCHANGED <<fileVars, kindVars, vn, vdec, walkVars, rawVars, pluginVars, loopVars>>

DecodeVli ==
  /\ venc # <<>> /\ vdec = None
  /\ vdec' = [ok |-> TRUE, reader |-> readVarInt(venc, 0),
              raw |-> readVarIntRaw(venc, 0, Len(venc))]
  /\ UNCHANGED <<fileVars, kindVars, vn, venc, walkVars, rawVars, pluginVars, loopVars>>

NextVli == EncodeVli \/ DecodeVli

SpecVli == InitVli /\ [][NextVli]_vars

\* ------------------------------------------------------------------------
\* The two size decoders on any bytes: readVarIntRaw over [roff, rend) and
\* the reader's readVarInt at read offset roff
\* ------------------------------------------------------------------------
InitRaw ==
  /\ FileIdle /\ VliIdle /\ KindIdle /\ WalkIdle /\ PluginsIdle /\ LoopIdle
  /\ rbuf \in RawBuffers
  /\ roff \in 0..Len(rbuf)
  /\ rend \in roff..Len(rbuf)
  /\ rres = None

DecodeRaw ==
  /\ rres = None
  /\ rres' = [raw |-> readVarIntRaw(rbuf, roff, rend), reader |-> readVarInt(rbuf, roff)]
  /\ UNCHANGED <<fileVars, vliVars, kindVars, walkVars, rbuf, roff, rend, pluginVars, loopVars>>

NextRaw == DecodeRaw

SpecRaw == InitRaw /\ [][NextRaw]_vars

\* ------------------------------------------------------------------------
\* parse, then list the plugins
\* ------------------------------------------------------------------------
InitPlugins ==
  FileStart(PluginFiles) /\ VliIdle /\ KindIdle /\ WalkIdle /\ RawIdle /\ PluginsIdle /\ LoopIdle

ListPlugins ==
  /\ phase = "parsed"
  /\ plugins = None
  /\ plugins' = listPlugins(cur)
  /\ UNCHANGED <<fileVars, vliVars, kindVars, walkVars, rawVars, loopVars>>

NextPlugins == Parse \/ ListPlugins

SpecPlugins == InitPlugins /\ [][NextPlugins]_vars

\* ------------------------------------------------------------------------
\* parseFlp one loop iteration at a time: lpos is the reader's cursor, lst
\* tells whether the call is in the loop, has returned or has raised.  The
\* buffer does not change during the call, so what an iteration does is a
\* function of the cursor alone; ltab holds that function for the buffer of
\* the call (and whether the statements before the loop raise).
\* ------------------------------------------------------------------------
LoopFiles == LookFiles \cup Inputs

InitLoop ==
  /\ FileStart(LoopFiles) /\ VliIdle /\ KindIdle /\ WalkIdle /\ RawIdle /\ PluginsIdle
  /\ lpos = 0 /\ lst = "idle"
  /\ ltab = [enters |-> entersLoop(buffer),
             iteration |-> [q \in 22..(Len(buffer) - 1) |->
                              loopIteration(buffer, q, Len(buffer))]]

EnterLoop ==
  /\ lst = "idle"
  /\ IF ltab.enters
       THEN lst' = "running" /\ lpos' = 22
       ELSE lst' = "raised" /\ lpos' = 0
  /\ UNCHANGED <<fileVars, vliVars, kindVars, walkVars, rawVars, pluginVars, ltab>>

Iterate ==
  /\ lst = "running"
  /\ lpos < Len(buffer)
  /\ lpos' = ltab.iteration[lpos].pos
  /\ lst' = IF ltab.iteration[lpos].ok THEN "running" ELSE "raised"
  /\ UNCHANGED <<fileVars, vliVars, kindVars, walkVars, rawVars, pluginVars, ltab>>

Return ==
  /\ lst = "running"
  /\ ~(lpos < Len(buffer))
  /\ lst' = "returned"
  /\ UNCHANGED <<fileVars, vliVars, kindVars, walkVars, rawVars, pluginVars, lpos, ltab>>

NextLoop == EnterLoop \/ Iterate \/ Return

SpecLoop == InitLoop /\ [][NextLoop]_vars

\* the call keeps running: a step that is possible is taken
SpecLoopFair == SpecLoop /\ WF_vars(NextLoop)

\* ------------------------------------------------------------------------
\* getEventKind alone, over every byte value
\* ------------------------------------------------------------------------
InitKind == FileIdle /\ VliIdle /\ WalkIdle /\ RawIdle /\ PluginsIdle /\ LoopIdle /\ kid \in 0..255 /\ kres = "none"

Classify ==
  /\ kres = "none"
  /\ kres' = getEventKind(kid)
  /\ UNCHANGED <<fileVars, vliVars, kid, walkVars, rawVars, pluginVars, loopVars>>

NextKind == Classify

SpecKind == InitKind /\ [][NextKind]_vars

\* ------------------------------------------------------------------------
\* Properties
\* ------------------------------------------------------------------------
EventBytes(event) == event.header \o event.payload

RECURSIVE ConcatBytes(_)
ConcatBytes(events) ==
  IF events = <<>> THEN <<>> ELSE EventBytes(Head(events)) \o ConcatBytes(Tail(events))

RECURSIVE SumEventLens(_)
SumEventLens(events) ==
  IF events = <<>> THEN 0
  ELSE Len(Head(events).header) + Len(Head(events).payload) + SumEventLens(Tail(events))

\* the offset in a file at which event i of `events` starts, and its bytes there
StartOf(events, i) == 22 + SumEventLens(SubSeq(events, 1, i - 1))
RegionOf(buf, events, i) ==
  subarray(buf, StartOf(events, i),
           StartOf(events, i) + Len(events[i].header) + Len(events[i].payload))

IsUnknownDword(id) == id >= DWORD /\ id < TEXT /\ id \notin KNOWN_DWORD_IDS
HasWideVli(event) ==
  event.id >= TEXT /\ Len(event.header) > 1 + varIntSize(Len(event.payload))
IsVariableDword(event) == IsUnknownDword(event.id) /\ Len(event.header) > 1

C3_ConservativeFraming ==
  (phase = "serialized" /\ npatch > 0) =>
    \A i \in 1..Len(cur.events) :
      (cur.events[i].id = prev.events[i].id /\ cur.events[i].pid = prev.events[i].pid)
        => /\ cur.events[i].header = prev.events[i].header
           /\ RegionOf(out, cur.events, i) = EventBytes(prev.events[i])

C3_Witness ==
  /\ phase = "serialized" /\ npatch > 0
  /\ \E i, k \in 1..Len(cur.events) :
       /\ cur.events[i].pid = prev.events[i].pid /\ HasWideVli(prev.events[i])
       /\ cur.events[k].pid # prev.events[k].pid

\* C4: the u32 at offsets 18..21 is the total of framing and payload lengths
\* plus the trailing bytes, the events follow in order, then the trailing
\* bytes, and the output is 22 bytes longer than that total.
C4_LengthField ==
  phase = "serialized" =>
    LET total == SumEventLens(cur.events) + Len(cur.trailingBytes)
    IN /\ readU32LE(out, 18) = total
       /\ Len(out) = 22 + total
       /\ subarray(out, 22, Len(out)) = ConcatBytes(cur.events) \o cur.trailingBytes

C4_Witness ==
  phase = "serialized" /\ npatch >= 1 /\ Len(out) # Len(buffer) /\ Len(cur.events) >= 2

\* C5: every parsed event with id < 192 serializes to 1 + getEventFixedSize(id)
\* bytes.
C5_FixedRangeSize ==
  orig.ok =>
    \A i \in 1..Len(orig.value.events) :
      orig.value.events[i].id < TEXT
        => Len(serializeEvent(orig.value.events[i]))
             = 1 + getEventFixedSize(orig.value.events[i].id)

\* C6: after replacing payloads of TEXT-range events, the serialized file
\* parses again into the same events: the edited ones with their new payload,
\* the others with the id, framing and payload of the first parse.
C6_EditRoundTrip ==
  ( /\ phase = "reparsed" /\ touched # {}
    /\ \A k \in touched : orig.value.events[k].id \in TEXT..(DATA - 1) )
  => /\ re.ok
     /\ Len(re.value.events) = Len(orig.value.events)
     /\ \A i \in 1..Len(orig.value.events) :
          /\ re.value.events[i].id = orig.value.events[i].id
          /\ i \in touched => re.value.events[i].payload = cur.events[i].payload
          /\ i \notin touched =>
               /\ re.value.events[i].header = orig.value.events[i].header
               /\ re.value.events[i].payload = orig.value.events[i].payload

\* the offsets at which the event loop starts an event
RECURSIVE EventStarts(_, _, _)
EventStarts(buf, pos, eventsEnd) ==
  IF ~(pos < eventsEnd) THEN {}
  ELSE LET fr == eventFraming(buf, pos, buf[pos + 1], eventsEnd)
       IN IF ~fr.ok THEN {pos}
          ELSE {pos} \cup
               EventStarts(buf, fr.offset + Len(readBytes(buf, fr.offset, fr.payloadSize)),
                           eventsEnd)

\* the event at p taken as a fixed 4-byte payload, the rest of the stream decodes
FixedThenRestDecodes(buf, p) ==
  eventLoop(buf, Min(p + 5, Len(buf)), Len(buf), <<>>, DEFAULT_VERSION, FALSE).ok

\* C7: when an unknown DWORD-range event can be taken as a fixed 4-byte
\* payload with the rest of the stream decoding, parseFlp succeeds.
C7_LookaheadNeverFails ==
  (orig.ok \/ orig.error = "index out of range") =>
    \A p \in EventStarts(buffer, 22, Len(buffer)) :
      (IsUnknownDword(buffer[p + 1]) /\ FixedThenRestDecodes(buffer, p)) => orig.ok

\* C8: flVersion is the NUL-free ASCII payload of the first FL-version event
\* that matches the pattern, "0.0.0" without one, and useUnicode is that
\* version's (major > 11 or major = 11 and minor >= 5).
C8_FirstMatchingVersion ==
  phase = "parsed" =>
    LET events == cur.events
        text(i) == removeNul(toAscii(events[i].payload))
        matching == {i \in 1..Len(events) :
                       events[i].id = PROJECT_FL_VERSION /\ isSemverLike(text(i))}
    IN IF matching = {}
         THEN cur.flVersion = DEFAULT_VERSION /\ cur.useUnicode = FALSE
         ELSE LET first == CHOOSE i \in matching : \A j \in matching : i <= j
              IN /\ cur.flVersion = text(first)
                 /\ cur.useUnicode = versionUsesUnicode(text(first))

\* C9: both decoders read n back from the encoder's bytes and consume all of
\* them, and the encoding has the minimal width, which varIntSize reports.
C9_VliRoundTrip ==
  vdec # None =>
    /\ vdec.reader.ok /\ vdec.reader.value = vn /\ vdec.reader.pos = Len(venc)
    /\ vdec.raw.size = vn /\ vdec.raw.bytesRead = Len(venc)
    /\ writeVarInt(vn) = venc
    /\ Len(venc) = varIntSize(vn)
    /\ Len(venc) = (CHOOSE k \in 1..5 :
                      /\ k = 5 \/ vn < 2^(7 * k)
                      /\ k = 1 \/ vn >= 2^(7 * (k - 1)))

C9_Witness == vdec # None /\ vn >= 2^28 /\ Len(venc) = 5

KindNames == {"u8", "i8", "u16", "i16", "u32", "i32", "f32", "text", "data", "unknown"}

\* the byte width getEventNumber reads for a kind
KindWidth(kind) ==
  IF kind \in {"u8", "i8"} THEN 1
  ELSE IF kind \in {"u16", "i16"} THEN 2
  ELSE IF kind \in {"u32", "i32", "f32"} THEN 4
  ELSE -1

KindCommon ==
  /\ kres \in KindNames
  /\ kid < TEXT => kres # "unknown"
  /\ (kid \in DOMAIN EVENT_KIND /\ kid < TEXT) => KindWidth(kres) = getEventFixedSize(kid)

\* C10 as stated: without an explicit mapping every id from 208 up is "data".
C10_KindByRangeOnly ==
  kres # "none" =>
    /\ KindCommon
    /\ kres = IF kid \in DOMAIN EVENT_KIND THEN EVENT_KIND[kid]
              ELSE IF kid < 64 THEN "u8"
              ELSE IF kid < 128 THEN "u16"
              ELSE IF kid < 192 THEN "u32"
              ELSE IF kid < 208 THEN "text"
              ELSE "data"

\* C10: getEventKind answers for every id: the explicit mapping if there is
\* one, else u8, u16, u32 by range, text below 208 and for the unmapped new
\* text ids 239 and 241, data for the rest; never unknown below 192, and an
\* explicit mapping below 192 has the width of the id's range.
C10_KindTotal ==
  kres # "none" =>
    /\ KindCommon
    /\ kres = IF kid \in DOMAIN EVENT_KIND THEN EVENT_KIND[kid]
              ELSE IF kid < 64 THEN "u8"
              ELSE IF kid < 128 THEN "u16"
              ELSE IF kid < 192 THEN "u32"
              ELSE IF kid < 208 \/ kid \in {239, 241} THEN "text"
              ELSE "data"

C10_Witness == kres = "text" /\ kid = 239

C12_TruncatedEventFails ==
  phase \in {"parsed", "failed"} =>
    \A p \in EventStarts(buffer, 22, Len(buffer)) :
      LET fr == eventFraming(buffer, p, buffer[p + 1], Len(buffer))
      IN (fr.ok /\ fr.payloadSize > Len(buffer) - fr.offset) => ~orig.ok

\* C13: patchEvents returns a ParsedFlp with as many events as it was given,
\* event i being the transform's answer for event i of the input (here: all
\* events but the transform's target are the input's), with headerChunkBytes,
\* fldtHeaderBytes, trailingBytes, flVersion and useUnicode of the input; the
\* input is what it was before the call.
C13_PatchPure ==
  phase = "patched" =>
    /\ Len(cur.events) = Len(prev.events)
    /\ \A i \in 1..Len(cur.events) :
         /\ i \notin touched => cur.events[i] = prev.events[i]
         /\ cur.events[i].kind = prev.events[i].kind
    /\ Cardinality({i \in 1..Len(cur.events) : cur.events[i] # prev.events[i]}) <= 1
    /\ cur.headerChunkBytes = prev.headerChunkBytes
    /\ cur.fldtHeaderBytes = prev.fldtHeaderBytes
    /\ cur.trailingBytes = prev.trailingBytes
    /\ cur.flVersion = prev.flVersion
    /\ cur.useUnicode = prev.useUnicode
    /\ npatch = 1 => (prev = orig.value /\ orig = parseFlp(buffer))

C13_Witness ==
  /\ phase = "patched" /\ Len(cur.events) >= 2
  /\ \E i \in 1..Len(cur.events) :
       /\ cur.events[i].id # prev.events[i].id
       /\ Len(cur.events[i].payload) # Len(prev.events[i].payload)
       /\ Len(prev.events[i].header) > 1

\* C14: in a project with title, comments, artists, genre and tempo events,
\* readProjectMeta gives back the five values writeProjectMeta was given, on
\* the patched value and on the parse of its serialization.
C14_MetaRoundTrip ==
  LET field(v) == [ok |-> TRUE, null |-> FALSE, value |-> v]
      want == [ok |-> TRUE, name |-> field(meta.name),
               description |-> field(meta.description),
               artist |-> field(meta.artist), genre |-> field(meta.genre),
               bpmThousandths |-> field(1000 * meta.bpm)]
  IN ( /\ meta # NoMeta
       /\ \A id \in MetaIds : findFirstEvent(prev, id) # 0 )
     => /\ phase \in {"patched", "serialized", "reparsed"} => readProjectMeta(cur) = want
        /\ phase = "reparsed" => (re.ok /\ readProjectMeta(re.value) = want)

C16_RejectedLoses ==
  phase = "parsed" =>
    \A i \in 1..Len(cur.events) :
      LET e == cur.events[i]
          p == StartOf(cur.events, i)
          end == Len(buffer)
          vi == readVarIntRaw(buffer, p + 1, end)
      IN ( /\ IsUnknownDword(e.id)
           /\ vi.size >= 0 /\ vi.size <= 100000
           /\ p + 1 + vi.bytesRead + vi.size <= end
           /\ scoreAlignment(buffer, p + 1 + vi.bytesRead + vi.size, end, 200) = -100 )
         => e.header = <<e.id>>

RECURSIVE walkAsStated(_, _, _, _, _, _, _)
walkAsStated(buf, off, end, limit, textDataCount, consecutiveSmall, maxConsecutiveSmall) ==
  IF off >= limit
    THEN 10 * textDataCount - 3 * maxConsecutiveSmall
  ELSE LET id == buf[off + 1] IN
    IF id < WORD THEN
      IF id < 32 /\ ~(id >= DWORD /\ id < TEXT /\ id \in DOMAIN EVENT_KIND)
        THEN walkAsStated(buf, off + 2, end, limit, textDataCount, consecutiveSmall + 1,
                 Max(maxConsecutiveSmall, consecutiveSmall + 1))
        ELSE walkAsStated(buf, off + 2, end, limit, textDataCount, 0, maxConsecutiveSmall)
    ELSE IF id < DWORD THEN
      walkAsStated(buf, off + 3, end, limit, textDataCount, 0, maxConsecutiveSmall)
    ELSE IF id < TEXT THEN
      walkAsStated(buf, off + 5, end, limit, textDataCount, 0, maxConsecutiveSmall)
    ELSE LET vi == readVarIntRaw(buf, off + 1, end) IN
      IF vi.size < 0 \/ off + 1 + vi.bytesRead + vi.size > end
        THEN -100
        ELSE walkAsStated(buf, off + 1 + vi.bytesRead + vi.size, end, limit,
                 textDataCount + 1, 0, maxConsecutiveSmall)

\* C18: scoreAlignment over 200 bytes steps 2, 3, 5 or past the payload by the
\* range of each id below min(q + 200, end), returns -100 exactly when it meets
\* a TEXT/DATA id with an invalid size or a payload passing the stream end, and
\* 10 * textDataCount - 3 * (longest run of small BYTE ids) otherwise.
C18_WalkerScore ==
  woff > 0 =>
    wscore = walkAsStated(buffer, woff, Len(buffer), Min(woff + 200, Len(buffer)), 0, 0, 0)

\* C19: patchEvents rebuilds a framing longer than 1 byte as the new id byte
\* and the minimal VLI of the new payload length when the transform returns
\* another payload object or another id, and keeps a 1-byte framing whatever
\* the transform returns.
C19_ReframeOnPayloadOrId ==
  (phase = "patched" /\ Len(prev.events) = Len(cur.events)) =>
    \A i \in 1..Len(cur.events) :
      LET event == prev.events[i]
          patched == cur.events[i]
      IN /\ (Len(event.header) > 1 /\ (patched.pid # event.pid \/ patched.id # event.id))
              => patched.header = <<patched.id % 256>> \o writeVarInt(Len(patched.payload))
         /\ Len(event.header) = 1 => patched.header = event.header

\* the bytes serializeFlp has written for event i, the events before it taken
\* at the length they are written with
emittedLen(event) ==
  (IF event.header # <<>> THEN Len(event.header)
   ELSE IF event.id >= TEXT THEN 1 + varIntSize(Len(event.payload)) ELSE 1)
  + Len(event.payload)

RECURSIVE emittedStart(_, _)
emittedStart(events, i) ==
  IF i = 1 THEN 22 ELSE emittedStart(events, i - 1) + emittedLen(events[i - 1])

emitted(events, i) ==
  subarray(out, emittedStart(events, i), emittedStart(events, i) + emittedLen(events[i]))

\* v is the shortest VLI of n: it decodes to n over its whole length and does
\* not end in a zero group
IsMinimalVli(v, n) ==
  /\ Len(v) >= 1
  /\ readVarIntRaw(v, 0, Len(v)) = [size |-> n, bytesRead |-> Len(v)]
  /\ Len(v) = 1 \/ v[Len(v)] # 0

\* framing is the id byte below TEXT, the id byte and the minimal VLI of the
\* payload length from TEXT on
IsSynthesized(framing, event) ==
  /\ Len(framing) >= 1
  /\ framing[1] = event.id
  /\ event.id < TEXT => Len(framing) = 1
  /\ event.id >= TEXT => IsMinimalVli(Tail(framing), Len(event.payload))

\* every added event is written as its synthesized framing and its payload
AddedEmitted ==
  phase = "serialized" =>
    \A i \in Added(cur.events) :
      LET event == cur.events[i]
          bytes == emitted(cur.events, i)
          n == Len(bytes) - Len(event.payload)
      IN /\ n >= 1
         /\ IsSynthesized(SubSeq(bytes, 1, n), event)
         /\ SubSeq(bytes, n + 1, Len(bytes)) = event.payload

C21_EventsTile ==
  orig.ok =>
    LET events == orig.value.events
    IN /\ \A i \in 1..Len(events) :
            /\ events[i].header # <<>>
            /\ StartOf(events, i) =
                 (IF i = 1 THEN 22
                  ELSE StartOf(events, i - 1) + Len(events[i - 1].header)
                         + Len(events[i - 1].payload))
            /\ StartOf(events, i) < Len(buffer)
            /\ events[i].header \o events[i].payload = RegionOf(buffer, events, i)
            /\ Len(RegionOf(buffer, events, i))
                 = Len(events[i].header) + Len(events[i].payload)
       /\ 22 + SumEventLens(events) + Len(orig.value.trailingBytes) = Len(buffer)

\* a parse with a TEXT event whose framing is 11 bytes, an event after it and
\* a last event cut short by the end of the stream
C21_Witness ==
  /\ orig.ok
  /\ \E i, j \in 1..Len(orig.value.events) :
       /\ i < j
       /\ Len(orig.value.events[i].header) = 11
       /\ orig.value.events[j].id < WORD
       /\ orig.value.events[j].payload = <<>>

\* the FL-version events of the parse, in stream order, and those whose
\* payload passes the pattern test
VersionEvents == {i \in 1..Len(cur.events) : cur.events[i].id = PROJECT_FL_VERSION}
MatchingVersions ==
  {i \in VersionEvents : isSemverLike(versionCandidate(cur.events[i].payload))}
FirstOf(S) == CHOOSE i \in S : \A j \in S : i <= j

RawStops == {k \in roff..(rend - 1) : rbuf[k + 1] < 128}

\* the base-128 little-endian value of the bytes at offsets from..to is below
\* 2^31, and that value
FitsInt31(from, to) ==
  /\ \A k \in from..to : k - from >= 5 => rbuf[k + 1] % 128 = 0
  /\ to - from >= 4 => rbuf[from + 5] % 128 < 8
RECURSIVE Base128(_, _)
Base128(from, to) ==
  IF from > to THEN 0
  ELSE (rbuf[from + 1] % 128) + 128 * Base128(from + 1, to)

\* C23: readVarIntRaw reads no byte at or beyond end; when [off, end) holds a
\* byte with the high bit clear it returns the base-128 little-endian value of
\* the bytes up to the first such byte, a non-negative integer, and their
\* number; it returns size -1 with 0 bytes read exactly when there is none.
C23_RawDecode ==
  rres # None =>
    /\ rres.raw = readVarIntRaw(SubSeq(rbuf, 1, rend), roff, rend)
    /\ IF RawStops = {}
         THEN rres.raw = [size |-> -1, bytesRead |-> 0]
         ELSE LET last == FirstOf(RawStops)
              IN /\ rres.raw.bytesRead = last - roff + 1
                 /\ rres.raw.size >= 0
                 /\ FitsInt31(roff, last)
                 /\ rres.raw.size = Base128(roff, last)

\* C24: getEventKind answers "text" for each id of NEW_TEXT_IDS (231, 239 and
\* 241), and getEventString accepts an event of that id and kind.
C24_NewTextIdsAreText ==
  (kres # "none" /\ kid \in NEW_TEXT_IDS) =>
    /\ kres = "text"
    /\ getEventString([id |-> kid, kind |-> kres, header |-> <<kid, 2>>,
                        payload |-> <<65, 0>>, pid |-> 1], FALSE).ok

\* the string of the text event i of the parse
StringOf(i) == getEventString(cur.events[i], cur.useUnicode).value

\* the first event with id `id` after event i that comes before the next
\* internal name and the next channel start; 0 when there is none
FollowerOf(i, id) ==
  LET after == {j \in (i + 1)..Len(cur.events) :
                  /\ cur.events[j].id = id
                  /\ \A k \in (i + 1)..(j - 1) :
                       cur.events[k].id \notin {PLUGIN_INTERNAL_NAME, CHANNEL_NEW}}
  IN IF after = {} THEN 0 ELSE FirstOf(after)

Listed(entry) == \E k \in 1..Len(plugins.value) : plugins.value[k] = entry

\* every internal name other than "Fruity Wrapper" has its entry
NativeListed ==
  \A i \in 1..Len(cur.events) :
    (cur.events[i].id = PLUGIN_INTERNAL_NAME /\ StringOf(i) # FRUITY_WRAPPER)
      => LET j == FollowerOf(i, PLUGIN_NAME)
         IN Listed([name |-> Str(IF j = 0 THEN StringOf(i) ELSE StringOf(j)),
                    vendor |-> NoString])

\* every "Fruity Wrapper" followed by plugin data with a name has its entry
VstListed ==
  \A i \in 1..Len(cur.events) :
    (cur.events[i].id = PLUGIN_INTERNAL_NAME /\ StringOf(i) = FRUITY_WRAPPER
       /\ FollowerOf(i, PLUGIN_DATA) # 0)
      => LET vstData == parseVstPluginData(cur.events[FollowerOf(i, PLUGIN_DATA)].payload)
         IN Truthy(vstData.name) => Listed(vstData)

\* no entry is listed twice
NoDuplicates ==
  \A a, b \in 1..Len(plugins.value) : a # b => plugins.value[a] # plugins.value[b]

\* C25: listPlugins returns an entry for every internal name that is not
\* "Fruity Wrapper" (vendor null, named by the display name that follows it or
\* by the internal name), an entry for every "Fruity Wrapper" followed by
\* plugin data that carries a name (that name and vendor), and no two entries
\* with the same name and vendor.
C25_ListsAllPlugins ==
  plugins # None =>
    /\ plugins.ok
    /\ NativeListed
    /\ VstListed
    /\ NoDuplicates

\* C26: a successful parse has no trailing bytes: the event stream ends where
\* the buffer ends and the event loop stops exactly there.
C26_NoTrailingBytes ==
  orig.ok =>
    /\ orig.value.trailingBytes = <<>>
    /\ 22 + readU32LE(buffer, 18) = Len(buffer)
    /\ 22 + SumEventLens(orig.value.events) = Len(buffer)

\* a parse whose last event is cut short by the end of the stream, and one
\* whose last event has an 11-byte framing
C26_Witness ==
  /\ orig.ok
  /\ Len(orig.value.events) >= 2
  /\ LET last == orig.value.events[Len(orig.value.events)]
     IN \/ last.id < WORD /\ last.payload = <<>>
        \/ Len(last.header) = 11

\* the iteration of the event loop that runs next moves the cursor forward, by
\* the id byte and one more byte at least or up to the end of the buffer
CursorAdvances ==
  (lst = "running" /\ lpos < Len(buffer)) =>
    LET it == ltab.iteration[lpos]
    IN it.ok => /\ it.pos > lpos
                /\ it.pos <= Len(buffer)
                /\ it.pos >= lpos + 2 \/ it.pos = Len(buffer)

\* from every offset of the stream a step of the walker rejects or advances by
\* 2 at least, and readVarIntRaw reads no more bytes than the stream has
WalkerAdvances ==
  lst = "running" =>
    \A q \in 22..(Len(buffer) - 1) :
      /\ walkerNext(buffer, q, Len(buffer)) = -1
           \/ walkerNext(buffer, q, Len(buffer)) >= q + 2
      /\ readVarIntRaw(buffer, q, Len(buffer)).bytesRead <= Len(buffer) - q

\* the call ends as parseFlp ends: returning a ParsedFlp or raising
EndsAsParseFlp ==
  /\ lst = "returned" => parseFlp(buffer).ok /\ lpos = Len(buffer)
  /\ lst = "raised" => ~parseFlp(buffer).ok

\* C27: parseFlp terminates on every input: each loop iteration moves the
\* cursor strictly forward, each walker step advances by 2 at least,
\* readVarIntRaw stops at end, and the call ends by returning or raising.
C27_Terminates ==
  /\ [](CursorAdvances /\ WalkerAdvances /\ EndsAsParseFlp)
  /\ <>(lst \in {"returned", "raised"})

\* a call that has returned after more than one iteration, the stream holding
\* an unknown DWORD-range event and a TEXT event of size 0
C27_Witness ==
  /\ lst = "returned"
  /\ lpos = Len(buffer)
  /\ Len(buffer) > 26
  /\ \E p, q \in 22..(Len(buffer) - 2) :
       /\ p \in EventStarts(buffer, 22, Len(buffer))
       /\ q \in EventStarts(buffer, 22, Len(buffer))
       /\ IsUnknownDword(buffer[p + 1])
       /\ buffer[q + 1] = 194 /\ buffer[q + 2] = 0

\* C28: after parseFlp and any patchEvents calls every event's framing is
\* non-empty and starts with the id the event carries, also after a transform
\* changed the id.
C28_IdByteIsCurrentId ==
  phase \in {"parsed", "patched"} =>
    \A i \in 1..Len(cur.events) :
      /\ cur.events[i].header # <<>>
      /\ cur.events[i].header[1] = cur.events[i].id

\* the size a reader decodes from the bytes of a framing after the id byte
sizePrefix(header) == readVarInt(Tail(header), 0)

\* C29: after parseFlp and any patchEvents calls the size prefix of every
\* framing longer than 1 byte decodes to the length of the event's payload.
C29_SizePrefixMatchesPayload ==
  phase \in {"parsed", "patched"} =>
    \A i \in 1..Len(cur.events) :
      Len(cur.events[i].header) > 1 =>
        /\ sizePrefix(cur.events[i].header).ok
        /\ sizePrefix(cur.events[i].header).value = Len(cur.events[i].payload)

\* C30: on every byte sequence that both decoders accept, the buffer ending
\* where the stream ends, BinaryReader.readVarInt and readVarIntRaw return the
\* same value and consume the same number of bytes.
C30_DecodersAgree ==
  (rres # None /\ rend = Len(rbuf) /\ rres.reader.ok /\ rres.raw.size >= 0) =>
    /\ rres.raw.size = rres.reader.value
    /\ rres.raw.bytesRead = rres.reader.pos

====
